---- MODULE Spec2Model ----
(***************************************************************************)
(* worterbuch-react: the connection lifecycle of the <Worterbuch> provider *)
(* (useWorterbuch, src/src/index.tsx), the subscribing hooks useSubscribe  *)
(* and usePSubscribe with the pattern subscription reducer                 *)
(* (src/src/index.tsx), and the key-space tree of useTree and useSubKeys   *)
(* (src/unnamed/part_001), and the hooks useWbState, useSPubInit, useSPub  *)
(* and useGetOnce (src/src/index.tsx).                                     *)
(*                                                                         *)
(* React is modelled by what the hooks rely on: a state setter stores the  *)
(* new value and schedules a render; a render reads the stored values,     *)
(* compares the effect's dependency list with the one of the previous      *)
(* render (Object.is), and when it differs runs the previous effect's      *)
(* cleanup followed by the effect body.  Closures created during a render  *)
(* keep the values that render saw.                                        *)
(***************************************************************************)
EXTENDS Integers, Sequences, FiniteSets, TLC

\* ------------------------------------------------------------------ bounds
MaxConnects == 3

CallIds == 1..MaxConnects

\* ------------------------------------------------------- useWorterbuch state
VARIABLES
    mounted,            \* the provider is mounted
    automaticReconnect, \* prop of <Worterbuch>
    conn,               \* useState conn: 0 is undefined, else id of the connection
    attempt,            \* useState attempt
    summary,            \* useState {state, status}
    rConn,              \* conn as seen by the last render (returned in WB)
    rAttempt,           \* attempt as seen by the last render
    rSummary,           \* {state, status} as seen by the last render
    effRan,             \* the connect effect has run at least once
    effConn,            \* conn in the dependency list / closure of the last effect
    effAttempt,         \* attempt in the dependency list / closure of the last effect
    needRender,         \* a state update is queued
    calls,              \* the wbconnect calls issued, by slot
    lastStep            \* what the last step did (observation only)

\* ------------------------------------------------------- usePSubscribe state
VARIABLES
    psMounted,          \* the component using usePSubscribe is mounted
    psPattern,          \* the pattern argument of the hook
    psConn,             \* wb.connection as the hook sees it (0 is undefined)
    psSubs,             \* pSubscribe registrations made by the hook, in order
    psState,            \* the reducer state {values, pattern}
    psReplay,           \* the batches passed to update, replayed one by one
    psFolded,           \* the subscriptions whose batches were passed to update
    psEff,              \* conn and sub captured by the cleanup of the last effect
    psLast              \* the keys the last batch upserted and removed, and
                        \* whether its subscription had been released

\* ------------------------------------------------------- useSubscribe state
VARIABLES
    usMounted,          \* the component using useSubscribe is mounted
    usKey,              \* the key argument of the hook
    usConn,             \* wb.connection as the hook sees it (0 is undefined)
    usSubs,             \* subscribe registrations made by the hook, in order
    usValue,            \* useState value
    usEff,              \* conn and sub captured by the cleanup of the last effect
    usLast              \* the last callback: "none", "live" or "late"

\* ------------------------------------------------------------ useTree state
VARIABLES
    trTree,             \* the Map held by the reducer, nested Maps as children
    trRef,              \* identity of the Map object the reducer returned last
    trLog,              \* the distinct keys upserted so far, in order
    trPattern,          \* the pattern argument of the hook
    trLast              \* what the last step did (observation only)

\* ------------------------------------------------- remote requests of hooks
VARIABLES
    rq                  \* per hook: its request, its state and how a failure ended

\* ------------------------------------------------------------ useWbState
VARIABLES
    wsInitial,          \* per client: the initialValue argument of the hook
    wsState,            \* per client: useState state
    wsConnected,        \* per client: useState connected
    wsStore,            \* the value the store holds for the key
    wsRequests,         \* requests to the store, in arrival order
    wsInbox,            \* per client: responses and notifications in flight
    wsLocal,            \* number of local setState calls made so far
    wsOverflow          \* a queue would have grown past its bound

\* ------------------------------------------------ useSPubInit, useSPub
VARIABLES
    spTid,              \* publishStreams.get(key): the connection that issued
                        \* the transaction id, 0 when the key is not in the map
    spPending           \* connections with an sPubInit(key) not yet resolved

\* ------------------------------------------------------------ useGetOnce
VARIABLES
    goKey,              \* the key argument of the hook
    goValue,            \* useState value
    goIssued,           \* the keys of the get requests issued, in order
    goPending,          \* the requests not yet settled, by position in goIssued
    goLatest            \* the outcome of the request issued last

rqVars == <<rq>>

wsVars == <<wsInitial, wsState, wsConnected, wsStore, wsRequests, wsInbox,
            wsLocal, wsOverflow>>

spVars == <<spTid, spPending>>

goVars == <<goKey, goValue, goIssued, goPending, goLatest>>

psVars == <<psMounted, psPattern, psConn, psSubs, psState, psReplay, psFolded,
            psEff, psLast>>

usVars == <<usMounted, usKey, usConn, usSubs, usValue, usEff, usLast>>

trVars == <<trTree, trRef, trLog, trPattern, trLast>>

connVars == <<mounted, automaticReconnect, conn, attempt, summary, rConn,
              rAttempt, rSummary, effRan, effConn, effAttempt, needRender,
              calls, lastStep>>

\* the hooks that share no state with the provider
plainHookVars == <<psVars, usVars, trVars, rqVars, wsVars, goVars>>

hookVars == <<plainHookVars, spVars>>

nonPsVars == <<connVars, usVars, trVars, rqVars, wsVars, spVars, goVars>>

nonUsVars == <<connVars, psVars, trVars, rqVars, wsVars, spVars, goVars>>

nonTrVars == <<connVars, psVars, usVars, rqVars, wsVars, spVars, goVars>>

nonRqVars == <<connVars, psVars, usVars, trVars, wsVars, spVars, goVars>>

nonWsVars == <<connVars, psVars, usVars, trVars, rqVars, spVars, goVars>>

nonGoVars == <<connVars, psVars, usVars, trVars, rqVars, wsVars, spVars>>

\* ConnectionState / ConnectionStatus pairs passed to setStatusSummary
InitialSummary == [state |-> "DISCONNECTED", status |-> "ERROR"]

ConnectingSummary == [state |-> "CONNECTING", status |-> "WARNING"]

ConnectedSummary == [state |-> "CONNECTED", status |-> "OK"]

ClosedSummary == [state |-> "DISCONNECTED", status |-> "ERROR"]

CouldNotConnectSummary_Warn == [state |-> "COULD_NOT_CONNECT", status |-> "WARNING"]

CouldNotConnectSummary == [state |-> "COULD_NOT_CONNECT", status |-> "ERROR"]

TeardownSummary == [state |-> "DISCONNECTED", status |-> "ERROR"]

\* a wbconnect call that has not been issued yet
NoCall == [st |-> "none", attempt |-> 0, timer |-> "none",
           closeFired |-> FALSE, closeCalled |-> FALSE]

\* address = config.backendAddress.map(...) is an array, which is truthy
AddressTruthy == TRUE

\* Object.is(previous address, address): each render builds a new array
SameAddress == FALSE

\* the effect's dependency list differs from the one of the previous render;
\* attemptReconnect is a useCallback over [attempt, automaticReconnect]
DepsChanged(rc, ra) ==
    \/ ~SameAddress
    \/ ra # effAttempt
    \/ rc # effConn

\* the guard of the connect effect
ShouldConnect(rc, ra) ==
    rc = 0 /\ AddressTruthy /\ (ra = 0 \/ automaticReconnect)

CloseConn_Forgotten(cs, c) == cs

\* conn.close() on connection c
CloseConn(cs, c) ==
    [cs EXCEPT ![c].st = IF @ = "open" THEN "closed" ELSE @,
               ![c].closeCalled = TRUE]

\* attemptReconnect() of the closure that captured attempt a: arms the timer
ArmTimer(cs, i) ==
    IF automaticReconnect THEN [cs EXCEPT ![i].timer = "armed"] ELSE cs

ConnInit ==
    /\ mounted = TRUE
    /\ automaticReconnect \in BOOLEAN
    /\ conn = 0
    /\ attempt = 0
    /\ summary = InitialSummary
    /\ rConn = 0
    /\ rAttempt = 0
    /\ rSummary = InitialSummary
    /\ effRan = FALSE
    /\ effConn = 0
    /\ effAttempt = 0
    /\ needRender = TRUE
    /\ calls = [i \in CallIds |-> NoCall]
    /\ lastStep = [op |-> "init", id |-> 0, connected |-> FALSE, cleaned |-> 0]

\* number of wbconnect calls issued so far (no slot is reused under Spec)
nCalls == Cardinality({i \in CallIds : calls[i].st # "none"})

Min(a, b) == IF a <= b THEN a ELSE b

\* the attempt counter is tracked up to MaxAttempt: the code only tests
\* attempt === 0 and compares attempt with the value of the previous render
MaxAttempt == MaxConnects

\* the slot of the next wbconnect call: the first unused one, 0 if none is left
FreshSlot ==
    IF \E i \in CallIds : calls[i].st = "none"
    THEN CHOOSE i \in CallIds :
            calls[i].st = "none" /\ \A j \in CallIds : calls[j].st = "none" => i <= j
    ELSE 0

\* pubSRef.current.clear() of the connect effect; the map holds one key
ClearStreams(connect, tid) == IF connect THEN 0 ELSE tid

\* A render of the provider followed by its effects; a wbconnect call issued
\* by the effect is recorded in slot s.
RenderInto(s) ==
    /\ mounted
    /\ LET rc == conn
           ra == attempt
           run == ~effRan \/ DepsChanged(rc, ra)
           cleanup == run /\ effRan /\ effConn # 0
           connect == run /\ ShouldConnect(rc, ra)
           afterCleanup == IF cleanup THEN CloseConn(calls, effConn) ELSE calls
       IN  /\ connect => s # 0
           /\ rConn' = rc
           /\ rAttempt' = ra
           /\ rSummary' = summary
           /\ effRan' = TRUE
           /\ effConn' = IF run THEN rc ELSE effConn
           /\ effAttempt' = IF run THEN ra ELSE effAttempt
           /\ conn' = IF cleanup THEN 0 ELSE conn
           /\ summary' = IF connect THEN ConnectingSummary
                         ELSE IF cleanup THEN TeardownSummary
                         ELSE summary
           /\ calls' = IF connect
                       THEN [afterCleanup EXCEPT ![s] =
                                [NoCall EXCEPT !.st = "pending", !.attempt = ra]]
                       ELSE afterCleanup
           /\ needRender' = (cleanup \/ connect)
           /\ lastStep' = [op |-> "render", id |-> IF connect THEN s ELSE 0,
                           connected |-> connect,
                           cleaned |-> IF cleanup THEN effConn ELSE 0]
           /\ spTid' = ClearStreams(connect, spTid)
    /\ UNCHANGED <<mounted, automaticReconnect, attempt, spPending>>
    /\ UNCHANGED plainHookVars

\* the provider renders: React scheduled it, or its parent rendered
Render == RenderInto(FreshSlot)

\* wbconnect(...).then: the promise of call i resolves with a connection
ConnectResolve(i) ==
    /\ calls[i].st = "pending"
    /\ calls' = [calls EXCEPT ![i].st = "open"]
    /\ conn' = i
    /\ summary' = ConnectedSummary
    /\ needRender' = TRUE
    /\ lastStep' = [op |-> "resolve", id |-> i, connected |-> FALSE, cleaned |-> 0]
    /\ UNCHANGED <<mounted, automaticReconnect, attempt, rConn, rAttempt,
                   rSummary, effRan, effConn, effAttempt>>
    /\ UNCHANGED hookVars

\* wbconnect(...).catch: the promise of call i rejects
ConnectReject(i) ==
    /\ calls[i].st = "pending"
    /\ calls' = ArmTimer([calls EXCEPT ![i].st = "rejected"], i)
    /\ summary' = CouldNotConnectSummary
    /\ needRender' = TRUE
    /\ lastStep' = [op |-> "reject", id |-> i, connected |-> FALSE, cleaned |-> 0]
    /\ UNCHANGED <<mounted, automaticReconnect, conn, attempt, rConn, rAttempt,
                   rSummary, effRan, effConn, effAttempt>>
    /\ UNCHANGED hookVars

\* the body of conn.onclose of connection i
OnClose(cs, i) ==
    /\ calls' = ArmTimer([cs EXCEPT ![i].closeFired = TRUE], i)
    /\ conn' = 0
    /\ summary' = ClosedSummary
    /\ needRender' = TRUE
    /\ UNCHANGED <<mounted, automaticReconnect, attempt, rConn, rAttempt,
                   rSummary, effRan, effConn, effAttempt>>
    /\ UNCHANGED hookVars

\* the server (or the network) closes connection i: conn.onclose fires
ServerClose(i) ==
    /\ calls[i].st = "open"
    /\ OnClose([calls EXCEPT ![i].st = "closed"], i)
    /\ lastStep' = [op |-> "serverClose", id |-> i, connected |-> FALSE, cleaned |-> 0]

\* conn.onclose fires for a connection the manager closed itself
ClientCloseNotified(i) ==
    /\ calls[i].st = "closed"
    /\ calls[i].closeCalled
    /\ ~calls[i].closeFired
    /\ OnClose(calls, i)
    /\ lastStep' = [op |-> "closeNotified", id |-> i, connected |-> FALSE, cleaned |-> 0]

\* setTimeout(() => setAttempt(attempt + 1), 3000) of call i fires
TimerFire(i) ==
    /\ calls[i].timer = "armed"
    /\ calls' = [calls EXCEPT ![i].timer = "fired"]
    /\ attempt' = Min(calls[i].attempt + 1, MaxAttempt)
    /\ needRender' = (needRender \/ attempt' # attempt
                                 \/ calls[i].attempt + 1 > MaxAttempt)
    /\ lastStep' = [op |-> "timer", id |-> i, connected |-> FALSE, cleaned |-> 0]
    /\ UNCHANGED <<mounted, automaticReconnect, conn, summary, rConn, rAttempt,
                   rSummary, effRan, effConn, effAttempt>>
    /\ UNCHANGED hookVars

\* the provider unmounts: the cleanup of the last effect runs
Unmount ==
    /\ mounted
    /\ effRan
    /\ mounted' = FALSE
    /\ LET cleanup == effConn # 0
       IN  /\ calls' = IF cleanup THEN CloseConn(calls, effConn) ELSE calls
           /\ conn' = IF cleanup THEN 0 ELSE conn
           /\ summary' = IF cleanup THEN TeardownSummary ELSE summary
           /\ lastStep' = [op |-> "unmount", id |-> 0, connected |-> FALSE,
                           cleaned |-> IF cleanup THEN effConn ELSE 0]
    /\ needRender' = FALSE
    /\ UNCHANGED <<automaticReconnect, attempt, rConn, rAttempt, rSummary,
                   effRan, effConn, effAttempt>>
    /\ UNCHANGED hookVars

\* ------------------------------------------------------------ usePSubscribe
MaxSubs == 2

MaxUpserts == 2

MaxRemoved == 1

Keys == {"a", "b"}

Values == {1, 2}

Patterns == {"p", "q"}

\* a key that the Map does not hold
Absent == 0

EmptyMap == [k \in Keys |-> Absent]

SeqsUpTo(S, n) == UNION {[1..m -> S] : m \in 0..n}

\* PStateEvent: keyValuePairs and deleted; a part that is undefined folds
\* nothing, like an empty one.  The reducer reads only the key of a deleted
\* pair, so the stale value it carries is left out.
KeyValuePairSet == [key : Keys, value : Values]

DeletedPairSet == [key : Keys]

Events == [keyValuePairs : SeqsUpTo(KeyValuePairSet, MaxUpserts),
           deleted : SeqsUpTo(DeletedPairSet, MaxRemoved)]

\* identity of the Map created by new Map() in the initial reducer state
InitialMapRef == 1

\* the initial reducer state { values: new Map(), pattern: "" }; values is the
\* content of the Map object and ref its identity
PSInitialState == [values |-> EmptyMap, pattern |-> "", ref |-> InitialMapRef]

\* keyValuePairs.forEach((kvp) => state.values.set(kvp.key, kvp.value))
RECURSIVE SetAll(_, _)
SetAll(m, kvps) ==
    IF kvps = <<>> THEN m
    ELSE SetAll([m EXCEPT ![Head(kvps).key] = Head(kvps).value], Tail(kvps))

\* deleted.forEach((kvp) => state.values.delete(kvp.key))
RECURSIVE DeleteAll(_, _)
DeleteAll(m, kvps) ==
    IF kvps = <<>> THEN m
    ELSE DeleteAll([m EXCEPT ![Head(kvps).key] = Absent], Tail(kvps))

PSReduce_DeleteFirst(state, tag, ev) ==
    LET cleared == IF tag # state.pattern THEN EmptyMap ELSE state.values
    IN  [values |-> SetAll(DeleteAll(cleared, ev.deleted), ev.keyValuePairs),
         pattern |-> tag, ref |-> state.ref]

PSReduce_NoClear(state, tag, ev) ==
    [values |-> DeleteAll(SetAll(state.values, ev.keyValuePairs), ev.deleted),
     pattern |-> tag, ref |-> state.ref]

\* the reducer of usePSubscribe applied to the event [tag, ev]: clear(), set()
\* and delete() act on the Map state.values itself and { ...state } copies the
\* reference to it, so the Map of the new state is the Map of the old one
PSReduce(state, tag, ev) ==
    LET cleared == IF tag # state.pattern THEN EmptyMap ELSE state.values
    IN  [values |-> DeleteAll(SetAll(cleared, ev.keyValuePairs), ev.deleted),
         pattern |-> tag, ref |-> state.ref]

\* the batch upserts key k
Upserts(ev, k) ==
    \E n \in 1..Len(ev.keyValuePairs) : ev.keyValuePairs[n].key = k

\* the batch removes key k
Removes(ev, k) == \E n \in 1..Len(ev.deleted) : ev.deleted[n].key = k

Max(S) == CHOOSE x \in S : \A y \in S : y <= x

\* the value of the last upsert of k in the batch
LastUpsert(ev, k) ==
    ev.keyValuePairs[Max({n \in 1..Len(ev.keyValuePairs) :
                             ev.keyValuePairs[n].key = k})].value

\* replaying one batch on the mapping m, key by key: a key the batch removes
\* ends absent, a key it only upserts takes the last upserted value, any other
\* key keeps what it had
ReplayBatch(m, ev) ==
    [k \in Keys |-> IF Removes(ev, k) THEN Absent
                    ELSE IF Upserts(ev, k) THEN LastUpsert(ev, k)
                    ELSE m[k]]

NoSub == 0

\* the subscription the last effect of the hook registered, if it is still live
ActiveSub ==
    IF psSubs # <<>> /\ ~psSubs[Len(psSubs)].released THEN Len(psSubs) ELSE NoSub

\* conn.unsubscribe(sub) called once more for the registration s, on c
Unsubscribe(subs, s, c) ==
    [subs EXCEPT ![s].released = TRUE, ![s].unsubs = @ + 1, ![s].unsubOn = c]

\* an effect that returned no cleanup
NoCleanup == [conn |-> 0, sub |-> NoSub]

PSCleanup_Never(subs) == subs

PSCleanup_Twice(subs) ==
    IF psEff.sub # NoSub
    THEN Unsubscribe(Unsubscribe(subs, psEff.sub, psEff.conn), psEff.sub, psEff.conn)
    ELSE subs

\* the cleanup returned by the last effect, if it returned one:
\* conn.unsubscribe(sub) with the conn and sub that effect captured
PSCleanup(subs) ==
    IF psEff.sub # NoSub THEN Unsubscribe(subs, psEff.sub, psEff.conn) ELSE subs

\* the effect body: conn.pSubscribe(pattern, (e) => update([pattern, e]), ...)
PSEffect(subs, c, p) ==
    IF c # 0
    THEN Append(subs, [pattern |-> p, conn |-> c, released |-> FALSE,
                       unsubs |-> 0, unsubOn |-> 0])
    ELSE subs

\* what the cleanup returned by that effect captures: conn and the id sub
PSClosure(subs, c) ==
    IF c # 0 THEN [conn |-> c, sub |-> Len(subs) + 1] ELSE NoCleanup

\* no component uses usePSubscribe
PSIdle ==
    /\ psMounted = FALSE
    /\ psPattern = "p"
    /\ psConn = 0
    /\ psSubs = <<>>
    /\ psEff = NoCleanup
    /\ psState = PSInitialState
    /\ psReplay = EmptyMap
    /\ psFolded = {}
    /\ psLast = [upserted |-> {}, removed |-> {}, late |-> FALSE]

\* the component has mounted and its first effect has run
PSInit ==
    /\ psMounted = TRUE
    /\ psPattern \in Patterns
    /\ psConn \in {0, 1}
    /\ psSubs = PSEffect(<<>>, psConn, psPattern)
    /\ psEff = PSClosure(<<>>, psConn)
    /\ psState = PSInitialState
    /\ psReplay = EmptyMap
    /\ psFolded = {}
    /\ psLast = [upserted |-> {}, removed |-> {}, late |-> FALSE]

\* wb.connection changes: the effect is cleaned up and runs again
PSConnChange(c) ==
    /\ psMounted
    /\ c # psConn
    /\ (c # 0 => Len(psSubs) < MaxSubs)
    /\ psConn' = c
    /\ psSubs' = PSEffect(PSCleanup(psSubs), c, psPattern)
    /\ psEff' = PSClosure(psSubs, c)
    /\ UNCHANGED <<psMounted, psPattern, psState, psReplay, psFolded, psLast>>
    /\ UNCHANGED nonPsVars

\* the component is rendered with another pattern
PSPatternChange(p) ==
    /\ psMounted
    /\ p # psPattern
    /\ (psConn # 0 => Len(psSubs) < MaxSubs)
    /\ psPattern' = p
    /\ psSubs' = PSEffect(PSCleanup(psSubs), psConn, p)
    /\ psEff' = PSClosure(psSubs, psConn)
    /\ UNCHANGED <<psMounted, psConn, psState, psReplay, psFolded, psLast>>
    /\ UNCHANGED nonPsVars

\* the callback of the live subscription fires with ev
PSDeliver(ev) ==
    /\ psMounted
    /\ ActiveSub # NoSub
    /\ psState' = PSReduce(psState, psSubs[ActiveSub].pattern, ev)
    /\ psReplay' = ReplayBatch(psReplay, ev)
    /\ psFolded' = psFolded \cup {ActiveSub}
    /\ psLast' = [upserted |-> {k \in Keys : Upserts(ev, k)},
                  removed |-> {k \in Keys : Removes(ev, k)}, late |-> FALSE]
    /\ UNCHANGED <<psMounted, psPattern, psConn, psSubs, psEff>>
    /\ UNCHANGED nonPsVars

\* the callback (e) => update([pattern, e]) of a registration that was already
\* unsubscribed fires with an event that was in flight; the callback holds no
\* reference to the unsubscribe and dispatches like any other
PSLateDeliver(s, ev) ==
    /\ psMounted
    /\ s \in 1..Len(psSubs)
    /\ psSubs[s].released
    /\ psState' = PSReduce(psState, psSubs[s].pattern, ev)
    /\ psReplay' = ReplayBatch(psReplay, ev)
    /\ psFolded' = psFolded \cup {s}
    /\ psLast' = [upserted |-> {k \in Keys : Upserts(ev, k)},
                  removed |-> {k \in Keys : Removes(ev, k)}, late |-> TRUE]
    /\ UNCHANGED <<psMounted, psPattern, psConn, psSubs, psEff>>
    /\ UNCHANGED nonPsVars

\* the component unmounts: the cleanup of the last effect runs
PSUnmount ==
    /\ psMounted
    /\ psMounted' = FALSE
    /\ psSubs' = PSCleanup(psSubs)
    /\ psEff' = NoCleanup
    /\ UNCHANGED <<psPattern, psConn, psState, psReplay, psFolded, psLast>>
    /\ UNCHANGED nonPsVars

\* ------------------------------------------------------------- useSubscribe
\* undefined: the value of useState<T | undefined>(initialValue) when the hook
\* is called without initialValue, and the argument of setValue(undefined)
Undefined == 0

USCleanup_Never(subs) == subs

\* the cleanup returned by the last effect, if it returned one:
\* conn.unsubscribe(sub) with the conn and sub that effect captured
USCleanup(subs) ==
    IF usEff.sub # NoSub THEN Unsubscribe(subs, usEff.sub, usEff.conn) ELSE subs

\* the effect body: conn.subscribe(key, ({ value }) => setValue(value), ...)
USEffect(subs, c, k) ==
    IF c # 0
    THEN Append(subs, [key |-> k, conn |-> c, released |-> FALSE,
                       unsubs |-> 0, unsubOn |-> 0])
    ELSE subs

\* what the cleanup returned by that effect captures: conn and the id sub
USClosure(subs, c) ==
    IF c # 0 THEN [conn |-> c, sub |-> Len(subs) + 1] ELSE NoCleanup

\* the effect body without a connection: setValue(undefined)
USEffectValue(v, c) == IF c # 0 THEN v ELSE Undefined

\* no component uses useSubscribe
USIdle ==
    /\ usMounted = FALSE
    /\ usKey = "a"
    /\ usConn = 0
    /\ usSubs = <<>>
    /\ usEff = NoCleanup
    /\ usValue = Undefined
    /\ usLast = "none"

\* the component has mounted and its first effect has run
USInit ==
    /\ usMounted = TRUE
    /\ usKey \in Keys
    /\ usConn \in {0, 1}
    /\ usSubs = USEffect(<<>>, usConn, usKey)
    /\ usEff = USClosure(<<>>, usConn)
    /\ usValue = Undefined
    /\ usLast = "none"

\* wb.connection changes: the effect is cleaned up and runs again
USConnChange(c) ==
    /\ usMounted
    /\ c # usConn
    /\ (c # 0 => Len(usSubs) < MaxSubs)
    /\ usConn' = c
    /\ usSubs' = USEffect(USCleanup(usSubs), c, usKey)
    /\ usEff' = USClosure(usSubs, c)
    /\ usValue' = USEffectValue(usValue, c)
    /\ UNCHANGED <<usMounted, usKey, usLast>>
    /\ UNCHANGED nonUsVars

\* the component is rendered with another key
USKeyChange(k) ==
    /\ usMounted
    /\ k # usKey
    /\ (usConn # 0 => Len(usSubs) < MaxSubs)
    /\ usKey' = k
    /\ usSubs' = USEffect(USCleanup(usSubs), usConn, k)
    /\ usEff' = USClosure(usSubs, usConn)
    /\ usValue' = USEffectValue(usValue, usConn)
    /\ UNCHANGED <<usMounted, usConn, usLast>>
    /\ UNCHANGED nonUsVars

\* the callback of the live subscription fires: setValue(value)
USDeliver(v) ==
    /\ usMounted
    /\ usEff.sub # NoSub
    /\ usValue' = v
    /\ usLast' = "live"
    /\ UNCHANGED <<usMounted, usKey, usConn, usSubs, usEff>>
    /\ UNCHANGED nonUsVars

\* the callback ({ value }) => setValue(value) of a registration that was
\* already unsubscribed fires with a value that was in flight
USLateDeliver(s, v) ==
    /\ usMounted
    /\ s \in 1..Len(usSubs)
    /\ usSubs[s].released
    /\ usValue' = v
    /\ usLast' = "late"
    /\ UNCHANGED <<usMounted, usKey, usConn, usSubs, usEff>>
    /\ UNCHANGED nonUsVars

\* the component unmounts: the cleanup of the last effect runs
USUnmount ==
    /\ usMounted
    /\ usMounted' = FALSE
    /\ usSubs' = USCleanup(usSubs)
    /\ usEff' = NoCleanup
    /\ UNCHANGED <<usKey, usConn, usValue, usLast>>
    /\ UNCHANGED nonUsVars

\* ------------------------------------------------------- useTree, useSubKeys
MaxBatch == 2

\* keys as key.split(wb.separator) yields them: a/b, a/b/c, a/b/d and e//x
TreeKeys == {<<"a", "b">>, <<"a", "b", "c">>, <<"a", "b", "d">>,
             <<"e", "", "x">>}

Batches == SeqsUpTo(TreeKeys, MaxBatch)

\* new Map()
EmptyTree == <<>>

\* identity of the Map passed to useReducer as initial state
InitialTreeRef == 1

\* a Map from segment to child Map is the sequence of its entries in insertion
\* order; map.get(key) finds the entry of key
Find(map, key) ==
    IF \E i \in 1..Len(map) : map[i].seg = key
    THEN CHOOSE i \in 1..Len(map) : map[i].seg = key
    ELSE 0

\* a string is truthy unless it is empty; shift() of an empty array is undefined
Truthy(tail) == tail # <<>> /\ Head(tail) # ""

\* merge(key, tail, map): the map after the call and the boolean it returns
RECURSIVE merge(_, _, _)
merge(key, tail, map) ==
    LET missing == Find(map, key) = 0
        map1 == IF missing THEN Append(map, [seg |-> key, child |-> EmptyTree])
                ELSE map
        i == Find(map1, key)
        sub == IF Truthy(tail) THEN merge(Head(tail), Tail(tail), map1[i].child)
               ELSE [map |-> map1[i].child, changed |-> FALSE]
    IN  [map |-> [map1 EXCEPT ![i].child = sub.map],
         changed |-> sub.changed \/ missing]

RECURSIVE MergeAll_LastWins(_, _)
MergeAll_LastWins(acc, kvps) ==
    IF kvps = <<>> THEN acc
    ELSE LET split == Head(kvps)
             m == IF Truthy(split) THEN merge(Head(split), Tail(split), acc.map)
                  ELSE [map |-> acc.map, changed |-> FALSE]
         IN  MergeAll_LastWins([map |-> m.map, changed |-> m.changed], Tail(kvps))

\* kvps.forEach: split the key, shift the head, merge when the head is truthy
RECURSIVE MergeAll(_, _)
MergeAll(acc, kvps) ==
    IF kvps = <<>> THEN acc
    ELSE LET split == Head(kvps)
             m == IF Truthy(split) THEN merge(Head(split), Tail(split), acc.map)
                  ELSE [map |-> acc.map, changed |-> FALSE]
         IN  MergeAll([map |-> m.map, changed |-> m.changed \/ acc.changed],
                      Tail(kvps))

\* the number of Maps below the Map map
RECURSIVE CountNodes(_)
CountNodes(map) ==
    IF map = <<>> THEN 0
    ELSE 1 + CountNodes(Head(map).child) + CountNodes(Tail(map))

TreeReduce_AlwaysCopy(state, kvps) ==
    LET r == MergeAll([map |-> state.tree, changed |-> FALSE], kvps)
    IN  [tree |-> r.map, ref |-> state.ref + 1]

\* the reducer of useTree: new Map(state) when changed, else state itself
TreeReduce(state, kvps) ==
    LET r == MergeAll([map |-> state.tree, changed |-> FALSE], kvps)
    IN  [tree |-> r.map, ref |-> IF r.changed THEN state.ref + 1 ELSE state.ref]

RECURSIVE expand_EveryNode(_, _), expandEntries_EveryNode(_, _, _)
expand_EveryNode(subtree, path) ==
    IF Len(subtree) = 0 THEN <<path>>
    ELSE <<path>> \o expandEntries_EveryNode(subtree, path, 1)

expandEntries_EveryNode(subtree, path, i) ==
    IF i > Len(subtree) THEN <<>>
    ELSE expand_EveryNode(subtree[i].child, Append(path, subtree[i].seg))
         \o expandEntries_EveryNode(subtree, path, i + 1)

\* expand(subtree, path, paths): the paths it pushes, in order
RECURSIVE expand(_, _), expandEntries(_, _, _)
expand(subtree, path) ==
    IF Len(subtree) = 0 THEN <<path>>
    ELSE expandEntries(subtree, path, 1)

\* subtree.forEach from the i-th entry on
expandEntries(subtree, path, i) ==
    IF i > Len(subtree) THEN <<>>
    ELSE expand(subtree[i].child, Append(path, subtree[i].seg))
         \o expandEntries(subtree, path, i + 1)

\* useSubKeys: expand(tree, [], subKeys)
SubKeys == expand(trTree, <<>>)

\* the tree contains a node for every segment merge would visit for the key
RECURSIVE Known(_, _)
Known(map, split) ==
    \/ ~Truthy(split)
    \/ /\ Find(map, Head(split)) # 0
       /\ Known(map[Find(map, Head(split))].child, Tail(split))

Range(s) == {s[i] : i \in 1..Len(s)}

\* the keys of the batch that were not upserted before, in order, once each
RECURSIVE NewKeys(_, _)
NewKeys(log, kvps) ==
    IF kvps = <<>> THEN log
    ELSE NewKeys(IF Head(kvps) \in Range(log) THEN log ELSE Append(log, Head(kvps)),
                 Tail(kvps))

\* useReducer(..., new Map()) before any batch
TreeInitial ==
    /\ trTree = EmptyTree
    /\ trRef = InitialTreeRef
    /\ trLog = <<>>
    /\ trPattern = "p"
    /\ trLast = [op |-> "none", known |-> FALSE, fresh |-> FALSE, key |-> <<>>,
                 before |-> InitialTreeRef]

\* the callback update of the pattern subscription fires with a batch
TreeDeliver(kvps) ==
    /\ LET r == TreeReduce([tree |-> trTree, ref |-> trRef], kvps)
       IN  /\ trTree' = r.tree
           /\ trRef' = r.ref
    /\ trLog' = NewKeys(trLog, kvps)
    /\ UNCHANGED trPattern
    /\ trLast' = [op |-> "upsert",
                  known |-> kvps # <<>> /\ \A k \in Range(kvps) : Known(trTree, k),
                  fresh |-> \E k \in Range(kvps) : ~Known(trTree, k),
                  key |-> <<>>, before |-> trRef]
    /\ UNCHANGED nonTrVars

\* the store reports the key k removed: update is typed and written for
\* KeyValuePairs to upsert, and no other code of the hook touches the tree
TreeRemoved(k) ==
    /\ k \in Range(trLog)
    /\ trLast' = [op |-> "removed", known |-> FALSE, fresh |-> FALSE, key |-> k,
                  before |-> trRef]
    /\ UNCHANGED <<trTree, trRef, trLog, trPattern>>
    /\ UNCHANGED nonTrVars

\* the component is rendered with another pattern: the effect unsubscribes and
\* subscribes to the new pattern with the same update; the reducer is not
\* involved
TreePatternChange(p) ==
    /\ p # trPattern
    /\ trPattern' = p
    /\ trLast' = [op |-> "pattern", known |-> FALSE, fresh |-> FALSE, key |-> <<>>,
                  before |-> trRef]
    /\ UNCHANGED <<trTree, trRef, trLog>>
    /\ UNCHANGED nonTrVars

\* ---------------------------------------------------- remote requests
\* hooks that issue one remote request and what they do with its promise
RequestHooks == {"useGetOnce", "usePGetOnce", "useLsOnce", "usePLsOnce",
                 "useWbState", "useGet", "useSet"}

\* the handlers the hook attaches to the promise of its request, in order
Chain(h) ==
    CASE h = "useGetOnce" -> <<"then", "catch">>
      [] h = "usePGetOnce" -> <<"then", "catch">>
      [] h = "useLsOnce" -> <<"then">>
      [] h = "usePLsOnce" -> <<"then">>
      [] h = "useWbState" -> <<"then">>
      [] h = "useGet" -> <<>>
      [] h = "useSet" -> <<>>

\* the hook returns the promise to its caller instead of consuming it
Returned(h) == h \in {"useGet", "useSet"}

\* a promise settled as p ("fulfilled" or "rejected") passes the handlers of
\* chain: then(f) runs f on fulfilment and lets a rejection through, catch(g)
\* runs g on rejection and yields a fulfilled promise
RECURSIVE Settle(_, _, _)
Settle(chain, p, ran) ==
    IF chain = <<>> THEN [promise |-> p, ran |-> ran]
    ELSE IF Head(chain) = "then"
         THEN IF p = "fulfilled"
              THEN Settle(Tail(chain), "fulfilled", ran \cup {"then"})
              ELSE Settle(Tail(chain), "rejected", ran)
         ELSE IF p = "rejected"
              THEN Settle(Tail(chain), "fulfilled", ran \cup {"catch"})
              ELSE Settle(Tail(chain), "fulfilled", ran)

\* where the outcome of the request of hook h ends once its promise settled as
\* p: in the hook's state, with the caller, or with nobody (an unhandled
\* rejection)
Fate(h, p) ==
    LET s == Settle(Chain(h), p, {})
    IN  [value |-> IF "then" \in s.ran THEN "value"
                   ELSE IF "catch" \in s.ran THEN "absent"
                   ELSE "initial",
         end |-> IF Returned(h) THEN "caller"
                 ELSE IF s.promise = "rejected" THEN "uncaught"
                 ELSE "state"]

NoRequest == [st |-> "idle", value |-> "initial", end |-> "none"]

\* no hook has issued a request
RqInitial == rq = [h \in RequestHooks |-> NoRequest]

\* the effect (or the caller) of hook h issues its request on the connection
RqIssue(h) ==
    /\ rq[h].st # "pending"
    /\ rq' = [rq EXCEPT ![h].st = "pending", ![h].end = "none"]
    /\ UNCHANGED nonRqVars

\* the request of hook h succeeds
RqFulfil(h) ==
    /\ rq[h].st = "pending"
    /\ LET f == Fate(h, "fulfilled")
       IN  rq' = [rq EXCEPT ![h] = [st |-> "fulfilled", value |-> f.value,
                                    end |-> f.end]]
    /\ UNCHANGED nonRqVars

\* the request of hook h fails: its promise is rejected
RqReject(h) ==
    /\ rq[h].st = "pending"
    /\ LET f == Fate(h, "rejected")
       IN  rq' = [rq EXCEPT ![h] = [st |-> "rejected",
                                    value |-> IF f.value = "initial"
                                              THEN rq[h].value ELSE f.value,
                                    end |-> f.end]]
    /\ UNCHANGED nonRqVars

\* ------------------------------------------------------------ useWbState
MaxLocal == 1

MaxRequests == 5

MaxInbox == 2

\* two components bound to the same key, each over its own connection
Clients == {"A", "B"}

\* JavaScript values by what the hook tests of them
JsUndefined == "undefined"

JsNull == "null"

Falsy == {"undefined", "null", "0", "false", ""}

\* the initialValue the callers pass, and the values they pass to setState
InitialValues == {"0", "1"}

LocalValues == {"2", "undefined"}

\* initialValue || null
OrNull(v) == IF v \in Falsy THEN JsNull ELSE v

\* the then-handler of conn.get(key): its closure holds connected = false of
\* the render that issued the get, so it writes whenever the key is absent
InitialWrite(c, v) ==
    IF v = JsUndefined
    THEN <<[op |-> "set", value |-> OrNull(wsInitial[c])]>>
    ELSE <<>>

\* the third effect, run with the values of the render: delete or set
Publish(connected, state) ==
    IF ~connected THEN <<>>
    ELSE IF state = JsUndefined THEN <<[op |-> "delete", value |-> JsUndefined]>>
    ELSE <<[op |-> "set", value |-> state]>>

\* the third effect runs when state or connected differ from the last render
Republish(c, connected, state) ==
    IF state # wsState[c] \/ connected # wsConnected[c]
    THEN Publish(connected, state)
    ELSE <<>>

\* the queue of requests has room for out
Fits(out) == Len(wsRequests) + Len(out) <= MaxRequests

\* a queue would grow past its bound: the run is cut off here
WsCutOff ==
    /\ wsOverflow' = TRUE
    /\ UNCHANGED <<wsState, wsConnected, wsStore, wsRequests, wsInbox, wsLocal>>

\* no component uses useWbState
WsIdle ==
    /\ wsInitial = [c \in Clients |-> "1"]
    /\ wsState = [c \in Clients |-> "1"]
    /\ wsConnected = [c \in Clients |-> FALSE]
    /\ wsStore = JsUndefined
    /\ wsRequests = <<>>
    /\ wsInbox = [c \in Clients |-> <<>>]
    /\ wsLocal = 0
    /\ wsOverflow = FALSE

\* both components have mounted over an open connection: the store has
\* answered the get of the first effect and, if it holds the key, replayed its
\* value to the subscription of the second effect
WsInit ==
    /\ wsInitial \in [Clients -> InitialValues]
    /\ wsState = wsInitial
    /\ wsConnected = [c \in Clients |-> FALSE]
    /\ wsStore \in {JsUndefined, "2"}
    /\ wsRequests = <<>>
    /\ wsInbox = [c \in Clients |->
                    <<[kind |-> "get", value |-> wsStore]>>
                    \o IF wsStore = JsUndefined THEN <<>>
                       ELSE <<[kind |-> "event", value |-> wsStore]>>]
    /\ wsLocal = 0
    /\ wsOverflow = FALSE

\* client c receives the next message of its connection: the answer to its
\* get, or a notification of its subscription, followed by the render
WsReceive(c) ==
    /\ ~wsOverflow
    /\ wsInbox[c] # <<>>
    /\ LET m == Head(wsInbox[c])
           out == IF m.kind = "get" THEN InitialWrite(c, m.value)
                  ELSE Republish(c, TRUE, m.value)
       IN  IF ~Fits(out) THEN WsCutOff
           ELSE /\ wsRequests' = wsRequests \o out
                /\ wsInbox' = [wsInbox EXCEPT ![c] = Tail(@)]
                /\ wsState' = IF m.kind = "get" THEN wsState
                              ELSE [wsState EXCEPT ![c] = m.value]
                /\ wsConnected' = IF m.kind = "get" THEN wsConnected
                                  ELSE [wsConnected EXCEPT ![c] = TRUE]
                /\ UNCHANGED <<wsStore, wsLocal, wsOverflow>>
    /\ UNCHANGED wsInitial
    /\ UNCHANGED nonWsVars

\* the component of client c calls setState(v), followed by the render
WsSetState(c, v) ==
    /\ ~wsOverflow
    /\ wsLocal < MaxLocal
    /\ v # wsState[c]
    /\ LET out == Republish(c, wsConnected[c], v)
       IN  IF ~Fits(out) THEN WsCutOff
           ELSE /\ wsRequests' = wsRequests \o out
                /\ wsState' = [wsState EXCEPT ![c] = v]
                /\ wsLocal' = wsLocal + 1
                /\ UNCHANGED <<wsConnected, wsStore, wsInbox, wsOverflow>>
    /\ UNCHANGED wsInitial
    /\ UNCHANGED nonWsVars

\* the store applies the request that arrived first and notifies every
\* subscriber of the key
WsStoreApply ==
    /\ ~wsOverflow
    /\ wsRequests # <<>>
    /\ LET r == Head(wsRequests)
           v == IF r.op = "set" THEN r.value ELSE JsUndefined
       IN  IF \E c \in Clients : Len(wsInbox[c]) >= MaxInbox THEN WsCutOff
           ELSE /\ wsStore' = v
                /\ wsRequests' = Tail(wsRequests)
                /\ wsInbox' = [c \in Clients |->
                                 Append(wsInbox[c], [kind |-> "event", value |-> v])]
                /\ UNCHANGED <<wsState, wsConnected, wsLocal, wsOverflow>>
    /\ UNCHANGED wsInitial
    /\ UNCHANGED nonWsVars

\* ------------------------------------------------ useSPubInit, useSPub
\* new Map() of pubSRef, and no sPubInit issued
SpInitial == spTid = 0 /\ spPending = {}

\* a consumer of the context renders and calls useSPubInit(key): the map has
\* no entry for key, so it calls sPubInit(key) on wb.connection
SPubInit ==
    /\ mounted
    /\ rConn # 0
    /\ spTid = 0
    /\ rConn \notin spPending
    /\ spPending' = spPending \cup {rConn}
    /\ UNCHANGED spTid
    /\ UNCHANGED <<connVars, plainHookVars>>

\* the promise of sPubInit issued on connection i resolves with a transaction
\* id of that connection: wb.publishStreams.set(key, tid)
SPubInitResolve(i) ==
    /\ i \in spPending
    /\ calls[i].st = "open"
    /\ spTid' = i
    /\ spPending' = spPending \ {i}
    /\ UNCHANGED <<connVars, plainHookVars>>

\* ------------------------------------------------------------ useGetOnce
MaxGets == 4

\* what the store holds for each key
ResultOf(k) == IF k = "a" THEN 1 ELSE 2

\* no component uses useGetOnce
GoIdle ==
    /\ goKey = "a"
    /\ goValue = Undefined
    /\ goIssued = <<>>
    /\ goPending = {}
    /\ goLatest = Undefined

\* the component has mounted over an open connection and its effect has run
GoInit ==
    /\ goKey \in Keys
    /\ goValue = Undefined
    /\ goIssued = <<goKey>>
    /\ goPending = {1}
    /\ goLatest = Undefined

\* the component is rendered with another key: the effect issues get(key)
GoKeyChange(k) ==
    /\ k # goKey
    /\ Len(goIssued) < MaxGets
    /\ goKey' = k
    /\ goIssued' = Append(goIssued, k)
    /\ goPending' = goPending \cup {Len(goIssued) + 1}
    /\ UNCHANGED <<goValue, goLatest>>
    /\ UNCHANGED nonGoVars

\* the n-th get resolves: .then((val) => setValue(val as T))
GoFulfil(n) ==
    /\ n \in goPending
    /\ goValue' = ResultOf(goIssued[n])
    /\ goPending' = goPending \ {n}
    /\ goLatest' = IF n = Len(goIssued) THEN ResultOf(goIssued[n]) ELSE goLatest
    /\ UNCHANGED <<goKey, goIssued>>
    /\ UNCHANGED nonGoVars

\* the n-th get rejects: .catch(() => setValue(undefined))
GoReject(n) ==
    /\ n \in goPending
    /\ goValue' = Undefined
    /\ goPending' = goPending \ {n}
    /\ goLatest' = IF n = Len(goIssued) THEN Undefined ELSE goLatest
    /\ UNCHANGED <<goKey, goIssued>>
    /\ UNCHANGED nonGoVars

\* useWbState, useSPubInit and useGetOnce are not in use
Rest == WsIdle /\ SpInitial /\ GoIdle

\* the provider is left as constructed while the hook is exercised
ConnIdle == ConnInit /\ automaticReconnect = FALSE

PSNext ==
    \/ \E c \in 0..2 : PSConnChange(c)
    \/ \E p \in Patterns : PSPatternChange(p)
    \/ \E ev \in Events : PSDeliver(ev)
    \/ PSUnmount

\* a slot whose call can no longer act on the manager once the server accepts
\* every call and closes nothing: an unused slot, a closed connection whose
\* timer is not armed, or an open connection no closure and no state refers to
Reusable(i) ==
    \/ calls[i].st = "none"
    \/ /\ calls[i].st \in {"closed", "open"}
       /\ calls[i].timer # "armed"
       /\ i \notin {conn, rConn, effConn}

ReusableSlot ==
    IF \E i \in CallIds : Reusable(i)
    THEN CHOOSE i \in CallIds : Reusable(i) /\ \A j \in CallIds : Reusable(j) => i <= j
    ELSE 0

\* a render that React scheduled because a state setter was called
ScheduledRender == needRender /\ RenderInto(ReusableSlot)

ConnNext ==
    \/ Render
    \/ \E i \in CallIds : ConnectResolve(i)
    \/ \E i \in CallIds : ConnectReject(i)
    \/ \E i \in CallIds : ServerClose(i)
    \/ \E i \in CallIds : ClientCloseNotified(i)
    \/ \E i \in CallIds : TimerFire(i)
    \/ Unmount

vars == <<connVars, psVars, usVars, trVars, rqVars, wsVars, spVars, goVars>>

Init == ConnInit /\ PSIdle /\ USIdle /\ TreeInitial /\ RqInitial /\ Rest

Spec == Init /\ [][ConnNext]_vars

\* the provider with automaticReconnect=true facing a server that accepts every
\* connect call and closes no connection; renders happen only when scheduled
LiveInit == ConnInit /\ automaticReconnect = TRUE /\ PSIdle /\ USIdle /\ TreeInitial /\ RqInitial /\ Rest

LiveNext ==
    \/ ScheduledRender
    \/ \E i \in CallIds : ConnectResolve(i)
    \/ \E i \in CallIds : ClientCloseNotified(i)
    \/ \E i \in CallIds : TimerFire(i)

LiveSpec ==
    /\ LiveInit
    /\ [][LiveNext]_vars
    /\ WF_vars(ScheduledRender)
    /\ \A i \in CallIds : WF_vars(ConnectResolve(i))
    /\ \A i \in CallIds : WF_vars(TimerFire(i))

\* a render React owes because a state setter was called
DueRender == needRender /\ Render

\* the promise returned by wbconnect for call i settles
ConnectSettle(i) == ConnectResolve(i) \/ ConnectReject(i)

\* the provider over its whole life, unmount included: React performs the
\* renders it scheduled, every wbconnect promise settles, every timer fires and
\* a connection the manager closed reports its close; the server owes nothing
TeardownSpec ==
    /\ Init
    /\ [][ConnNext]_vars
    /\ WF_vars(DueRender)
    /\ \A i \in CallIds : WF_vars(ConnectSettle(i))
    /\ \A i \in CallIds : WF_vars(TimerFire(i))
    /\ \A i \in CallIds : WF_vars(ClientCloseNotified(i))

PSubInit == ConnIdle /\ PSInit /\ USIdle /\ TreeInitial /\ RqInitial /\ Rest

PSubSpec == PSubInit /\ [][PSNext]_vars

\* the reducer fed by the subscriptions of a hook whose connection stays up
ReducerInit == ConnIdle /\ PSInit /\ psConn = 1 /\ USIdle /\ TreeInitial /\ RqInitial /\ Rest

\* one component using useSubscribe or one using usePSubscribe, with events
\* that are empty or carry one upsert or one removal
HookEvents == {ev \in [keyValuePairs : SeqsUpTo(KeyValuePairSet, 1),
                        deleted : SeqsUpTo(DeletedPairSet, 1)] :
                   Len(ev.keyValuePairs) + Len(ev.deleted) <= 1}

HookInit ==
    /\ ConnIdle
    /\ TreeInitial
    /\ RqInitial
    /\ Rest
    /\ \/ PSInit /\ USIdle
       \/ PSIdle /\ USInit

HookNext ==
    \/ \E c \in 0..2 : PSConnChange(c)
    \/ \E p \in Patterns : PSPatternChange(p)
    \/ \E ev \in HookEvents : PSDeliver(ev)
    \/ \E s \in 1..MaxSubs, ev \in HookEvents : PSLateDeliver(s, ev)
    \/ PSUnmount
    \/ \E c \in 0..2 : USConnChange(c)
    \/ \E k \in Keys : USKeyChange(k)
    \/ \E v \in Values \cup {Undefined} : USDeliver(v)
    \/ \E s \in 1..MaxSubs, v \in Values \cup {Undefined} : USLateDeliver(s, v)
    \/ USUnmount

HookSpec == HookInit /\ [][HookNext]_vars

\* the reducer of useTree fed with batches of keys, and the store's removals
TreeInit == ConnIdle /\ PSIdle /\ USIdle /\ TreeInitial /\ RqInitial /\ Rest

TreeNext ==
    \/ \E kvps \in Batches : TreeDeliver(kvps)
    \/ \E k \in TreeKeys : TreeRemoved(k)
    \/ \E p \in Patterns : TreePatternChange(p)

TreeSpec == TreeInit /\ [][TreeNext]_vars

\* the hooks that issue remote requests, each request succeeding or failing
RequestInit == ConnIdle /\ PSIdle /\ USIdle /\ TreeInitial /\ RqInitial /\ Rest

RequestNext ==
    \/ \E h \in RequestHooks : RqIssue(h)
    \/ \E h \in RequestHooks : RqFulfil(h)
    \/ \E h \in RequestHooks : RqReject(h)

RequestSpec == RequestInit /\ [][RequestNext]_vars

\* two clients of useWbState and the store: every message in flight is
\* delivered and the store applies every request
WsStateInit == ConnIdle /\ PSIdle /\ USIdle /\ TreeInitial /\ RqInitial /\ WsInit /\ SpInitial /\ GoIdle

WsStateNext ==
    \/ \E c \in Clients : WsReceive(c)
    \/ \E c \in Clients, v \in LocalValues : WsSetState(c, v)
    \/ WsStoreApply

WsStateSpec ==
    /\ WsStateInit
    /\ [][WsStateNext]_vars
    /\ WF_vars(WsStoreApply)
    /\ \A c \in Clients : WF_vars(WsReceive(c))

\* the provider with a consumer that calls useSPubInit for one key
SPubNext ==
    \/ ConnNext
    \/ SPubInit
    \/ \E i \in CallIds : SPubInitResolve(i)

SPubSpec == Init /\ [][SPubNext]_vars

\* useGetOnce over a connection that stays up, its key changing
GetOnceInit == ConnIdle /\ PSIdle /\ USIdle /\ TreeInitial /\ RqInitial /\ WsIdle /\ SpInitial /\ GoInit

GetOnceNext ==
    \/ \E k \in Keys : GoKeyChange(k)
    \/ \E n \in 1..MaxGets : GoFulfil(n)
    \/ \E n \in 1..MaxGets : GoReject(n)

GetOnceSpec == GetOnceInit /\ [][GetOnceNext]_vars

ReducerNext ==
    \/ \E p \in Patterns : PSPatternChange(p)
    \/ \E ev \in Events : PSDeliver(ev)

ReducerSpec == ReducerInit /\ [][ReducerNext]_vars

\* ------------------------------------------------------------------ claims

\* number of wbconnect calls that have neither resolved nor rejected
Outstanding == {i \in CallIds : calls[i].st = "pending"}

\* C1: at most one connect call is outstanding at any time.
C1_AtMostOneOutstanding == Cardinality(Outstanding) <= 1

\* C2: with automaticReconnect=false exactly one connect call is issued over
\* the lifetime of the provider; none follows a failure or a close.
C2_SingleAttemptWithoutReconnect == ~automaticReconnect => nCalls <= 1

TimersFired == {i \in CallIds : calls[i].timer = "fired"}

\* C3: with automaticReconnect=true every connect call after the first is the
\* retry of one failure and is issued only after that failure's timer fired.
C3_RetryOnlyAfterTimer ==
    automaticReconnect => nCalls <= 1 + Cardinality(TimersFired)

\* C4: the attempt counter never decreases and every retry timer that fires
\* increments it.
C4_AttemptMonotonic ==
    [][/\ attempt' >= attempt
       /\ (\E i \in CallIds : calls[i].timer = "armed" /\ calls'[i].timer = "fired")
             => attempt' = attempt + 1]_vars

\* C5: while a connect call is outstanding the status is Connecting/Warning.
C5_ConnectingWhileOutstanding ==
    (mounted /\ Outstanding # {}) => summary = ConnectingSummary

\* C6: with automaticReconnect=true and a server that accepts every connect
\* call and closes no connection, the status eventually becomes Connected and
\* stays Connected.
C6_EventuallyStaysConnected == <>[](summary = ConnectedSummary)

C8_SingleOpenConnection ==
    mounted => \A i \in CallIds : calls[i].st = "open" => conn = i

AllowedSummaries ==
    {[state |-> "CONNECTED", status |-> "OK"],
     [state |-> "CONNECTING", status |-> "WARNING"],
     [state |-> "DISCONNECTED", status |-> "ERROR"],
     [state |-> "COULD_NOT_CONNECT", status |-> "ERROR"]}

\* C9: severity is a function of status: only Connected/Ok, Connecting/Warning,
\* Disconnected/Error and CouldNotConnect/Error are ever set or exposed.
C9_SeverityFollowsStatus ==
    summary \in AllowedSummaries /\ rSummary \in AllowedSummaries

C9_Witness ==
    /\ rSummary.state = "COULD_NOT_CONNECT"
    /\ \E i \in CallIds : calls[i].st = "rejected"

\* every batch the reducer has folded came from one subscription
SingleSub == Cardinality(psFolded) <= 1

\* C10: the mapping of usePSubscribe equals the replay of the batches delivered
\* to one pattern subscription, upserts then removals within each batch.
C10_MappingIsReplay == SingleSub => psState.values = psReplay

C10_Witness ==
    /\ Cardinality(psFolded) = 1
    /\ \E k \in psLast.upserted \cap psLast.removed : psState.values[k] = Absent
    /\ \E j \in Keys \ psLast.upserted : psState.values[j] # Absent

\* the hook waits for the first event of the subscription it registered when
\* its pattern changed
AwaitingFirstEvent ==
    /\ ActiveSub > 1
    /\ ActiveSub \notin psFolded
    /\ psSubs[ActiveSub].pattern # psSubs[ActiveSub - 1].pattern

\* C11: from a pattern change until the first event of the new subscription
\* the mapping usePSubscribe exposes contains no entry.
C11_EmptyAfterPatternChange == AwaitingFirstEvent => psState.values = EmptyMap

\* C12: a callback that fires for a subscription already released changes
\* neither the mapping of usePSubscribe nor the value of useSubscribe.
C12_LateCallbackIgnored ==
    [][/\ psLast'.late => psState'.values = psState.values
       /\ usLast' = "late" => usValue' = usValue]_vars

\* C13: every event the reducer folds emits a Map object different from the
\* one emitted before, and the contents of a Map object never change.
C13_NewSnapshotPerEvent ==
    [][/\ (\E ev \in Events : PSDeliver(ev)) => psState'.ref # psState.ref
       /\ psState'.ref = psState.ref => psState'.values = psState.values]_vars

\* the registrations not yet unsubscribed
Registered(subs) == {s \in 1..Len(subs) : ~subs[s].released}

\* C14: a subscribing hook unregisters its subscription before it registers a
\* new one: it never has more than one subscription registered.
C14_AtMostOneRegistered ==
    /\ Cardinality(Registered(psSubs)) <= 1
    /\ Cardinality(Registered(usSubs)) <= 1

C14_Witness ==
    /\ Len(psSubs) = MaxSubs
    /\ Registered(psSubs) = {MaxSubs}
    /\ psSubs[MaxSubs - 1].unsubs = 1

\* every registration was unsubscribed once, on the connection that issued it
ReleasedOnce(subs) ==
    \A s \in 1..Len(subs) : subs[s].unsubs = 1 /\ subs[s].unsubOn = subs[s].conn

\* C15: by the time the hook is unmounted every subscription id it obtained
\* was passed to unsubscribe exactly once, on the connection that issued it;
\* the hook never unsubscribes an id a second time.
C15_ReleasedExactlyOnce ==
    /\ ~psMounted => ReleasedOnce(psSubs)
    /\ ~usMounted => ReleasedOnce(usSubs)
    /\ \A s \in 1..Len(psSubs) : psSubs[s].unsubs <= 1
    /\ \A s \in 1..Len(usSubs) : usSubs[s].unsubs <= 1

C15_Witness ==
    /\ ~psMounted
    /\ Len(psSubs) = MaxSubs
    /\ \E s \in 1..Len(psSubs) : psSubs[s].conn # psSubs[MaxSubs].conn
    /\ ReleasedOnce(psSubs)

\* C16: for a batch that contains only keys already in the tree the reducer
\* of useTree returns the Map object it was given.
C16_SameTreeForKnownKeys ==
    (trLast.op = "upsert" /\ trLast.known) => trRef = trLast.before

C16_Witness ==
    /\ trLast.op = "upsert"
    /\ trLast.known
    /\ trRef = trLast.before
    /\ trRef > InitialTreeRef

\* the segments merge visits for a key: those before its first empty segment
RECURSIVE Visited(_)
Visited(split) ==
    IF Truthy(split) THEN <<Head(split)>> \o Visited(Tail(split)) ELSE <<>>

\* at least one key was upserted and no key upserted has an empty segment
PlainKeys == trLog # <<>> /\ \A i \in 1..Len(trLog) : Visited(trLog[i]) = trLog[i]

\* C17: the set of paths useSubKeys yields is the set of segment sequences of
\* the keys upserted so far, also when one key is a proper prefix of another.
C17_LeavesAreKeys == PlainKeys => Range(SubKeys) = Range(trLog)

IsPrefix(p, q) == Len(p) <= Len(q) /\ SubSeq(q, 1, Len(p)) = p

\* the nodes of the tree, the root included, as paths from the root
Nodes ==
    {<<>>} \cup UNION {{SubSeq(Visited(trLog[i]), 1, n) :
                           n \in 0..Len(Visited(trLog[i]))} : i \in 1..Len(trLog)}

Childless == {p \in Nodes : ~\E q \in Nodes : Len(q) = Len(p) + 1 /\ IsPrefix(p, q)}

\* the position in the log of the key that created the node p
Created(p) ==
    CHOOSE i \in 1..Len(trLog) :
        /\ IsPrefix(p, Visited(trLog[i]))
        /\ \A j \in 1..(i - 1) : ~IsPrefix(p, Visited(trLog[j]))

\* the first position at which the paths p and q differ
Fork(p, q) == CHOOSE d \in 1..Len(p) : p[d] # q[d] /\ SubSeq(p, 1, d - 1) = SubSeq(q, 1, d - 1)

\* C18: useSubKeys yields one path for every childless node and nothing else,
\* siblings in insertion order; a/b/c then a/b/d gives [a,b,c], [a,b,d].
C18_DepthFirstInsertionOrder ==
    /\ Range(SubKeys) = Childless
    /\ Len(SubKeys) = Cardinality(Childless)
    /\ \A i, j \in 1..Len(SubKeys) :
          i < j => LET d == Fork(SubKeys[i], SubKeys[j])
                   IN  Created(SubSeq(SubKeys[i], 1, d))
                         < Created(SubSeq(SubKeys[j], 1, d))
    /\ trLog = << <<"a", "b", "c">>, <<"a", "b", "d">> >>
          => SubKeys = << <<"a", "b", "c">>, <<"a", "b", "d">> >>

C18_Witness ==
    /\ trLog = << <<"a", "b", "c">>, <<"a", "b", "d">> >>
    /\ SubKeys = << <<"a", "b", "c">>, <<"a", "b", "d">> >>

\* C19: after the store reports a key removed the tree has no leaf for it.
C19_NoStaleLeaf ==
    trLast.op = "removed" => trLast.key \notin Range(SubKeys)

\* C23: a failed remote request of a hook never ends as an uncaught failure:
\* it ends in the hook's state or as a rejected result with the caller.
C23_NoUncaughtFailure ==
    \A h \in RequestHooks : rq[h].st = "rejected" => rq[h].end \in {"state", "caller"}

\* the step is the render that follows the firing of a retry timer
RenderAfterTimer == lastStep.op = "timer" /\ lastStep'.op = "render"

\* C24: a retry timer that fires while a connection is established is
\* superseded: the render it causes issues no connect call, does not close or
\* drop the connection, and the status stays Connected.
C24_StaleTimerSuperseded ==
    [][(RenderAfterTimer /\ conn # 0 /\ summary = ConnectedSummary)
         => /\ conn' = conn
            /\ summary' = ConnectedSummary
            /\ ~lastStep'.connected
            /\ lastStep'.cleaned = 0]_vars

\* C25: in every state shown to dependents the handle is defined exactly when
\* the status is Connected.
C25_HandleIffConnected ==
    mounted => (rConn # 0 <=> rSummary = ConnectedSummary)

\* C26: a rejected connect call sets the status to CouldNotConnect/Error,
\* leaves the handle undefined and the attempt counter unchanged, and arms a
\* retry timer exactly when automaticReconnect is true.
C26_RejectBecomesState ==
    [][lastStep'.op = "reject"
         => /\ summary' = CouldNotConnectSummary
            /\ conn' = 0
            /\ attempt' = attempt
            /\ (calls'[lastStep'.id].timer = "armed") <=> automaticReconnect]_vars

\* the last render committed the state as it is now, with a connection
Settled == effRan /\ conn # 0 /\ rConn = conn /\ effConn = conn /\ rAttempt = attempt

\* C29: a re-render of the provider with an unchanged configuration neither
\* closes an established connection nor issues a connect call.
C29_RerenderKeepsConnection ==
    [][(Settled /\ lastStep'.op = "render")
         => /\ conn' = conn
            /\ calls'[conn].st = calls[conn].st
            /\ ~calls'[conn].closeCalled
            /\ ~lastStep'.connected]_vars

\* the step is the close callback of a connection that is not the handle
StaleClose ==
    /\ lastStep'.op \in {"closeNotified", "serverClose"}
    /\ conn # 0
    /\ lastStep'.id # conn

\* C30: a close callback that fires for a connection that is not the retained
\* handle leaves the handle and the status as they are.
C30_StaleCloseIgnored ==
    [][StaleClose => conn' = conn /\ summary' = summary]_vars

\* C27: every entry of the mapping was upserted by an event whose pattern is
\* the pattern tag the state retains: an entry either was upserted by the
\* event just folded, whose tag the state now carries, or was there before
\* under the same tag.
C27_EntriesCarryRetainedTag ==
    [][\A k \in Keys :
         psState'.values[k] # Absent
           => \/ psState' # psState /\ k \in psLast'.upserted
              \/ psState.values[k] # Absent /\ psState'.pattern = psState.pattern]_vars

C27_Witness ==
    /\ Cardinality(psFolded) = 2
    /\ psState.pattern = psPattern
    /\ \E k \in Keys : psState.values[k] # Absent
    /\ \E k \in Keys : psState.values[k] = Absent /\ k \notin psLast.removed

\* C28: a batch is marked changed (the reducer returns a new Map) exactly when
\* merge created a node, which is exactly when a segment of one of its keys
\* was missing from the tree.
C28_ChangedIffNodeCreated ==
    [][trLast'.op = "upsert"
         => /\ (trRef' # trRef) <=> (CountNodes(trTree') > CountNodes(trTree))
            /\ (trRef' # trRef) <=> trLast'.fresh]_vars

C28_Witness ==
    /\ trLast.op = "upsert"
    /\ trLast.fresh
    /\ trRef > trLast.before
    /\ trLast.before > InitialTreeRef

\* C31: after the provider is unmounted every connection the manager obtained
\* is eventually closed, also one whose connect call was still outstanding at
\* unmount and resolved afterwards.
C31_ClosedAfterUnmount ==
    <>[](~mounted => \A i \in CallIds : calls[i].st # "open")

\* the subscription registered after a reconnect under the same pattern
\* delivers its first event
FirstEventAfterReconnect ==
    /\ ActiveSub > 1
    /\ psSubs[ActiveSub].pattern = psSubs[ActiveSub - 1].pattern
    /\ psSubs[ActiveSub].conn # psSubs[ActiveSub - 1].conn
    /\ ActiveSub \notin psFolded
    /\ ActiveSub \in psFolded'

\* C32: after the connection is replaced while the pattern is unchanged the
\* mapping of usePSubscribe contains only keys delivered by the subscription
\* on the new connection; no entry of the previous connection survives.
C32_NoEntrySurvivesReconnect ==
    [][FirstEventAfterReconnect
         => \A k \in Keys : psState'.values[k] # Absent => k \in psLast'.upserted]_vars

\* C33: the value of useSubscribe is the initial/absent value or the last
\* value delivered for the bound key on the current connection: right after
\* the key or the connection changed, when nothing has been delivered for the
\* new key yet, it is undefined, and so it is when the connection is lost.
C33_ValueOfCurrentBinding ==
    [][/\ usKey' # usKey => usValue' = Undefined
       /\ (usConn # 0 /\ usConn' = 0) => usValue' = Undefined]_vars

\* C34: after the pattern bound to useTree changed, the tree and the path
\* list hold only nodes of keys delivered under the new pattern: right after
\* the change, when no key has been delivered under it, the tree has no node.
C34_OnlyKeysOfCurrentPattern ==
    [][trPattern' # trPattern => trTree' = EmptyTree]_vars

\* C35: flattening a tree that holds no key yields no path at all, in
\* particular not the single empty path.
C35_EmptyTreeNoPaths == trTree = EmptyTree => SubKeys = <<>>

\* client c takes the answer "absent" to the get of its first connection
AbsentAtFirstConnection(c) ==
    /\ wsInbox[c] # <<>>
    /\ Head(wsInbox[c]).kind = "get"
    /\ Head(wsInbox[c]).value = JsUndefined
    /\ wsInbox'[c] = Tail(wsInbox[c])

\* C36: when the key is absent on the store at first connection useWbState
\* writes the caller's initialValue, also when it is 0, false or "".
C36_WritesInitialValue ==
    [][\A c \in Clients :
         AbsentAtFirstConnection(c)
           => wsRequests' = Append(wsRequests, [op |-> "set", value |-> wsInitial[c]])]_vars

\* nothing is in flight and both clients show what the store holds
WsQuiescent ==
    /\ wsRequests = <<>>
    /\ \A c \in Clients : wsInbox[c] = <<>> /\ wsState[c] = wsStore

\* C37: two clients bound to one key through useWbState reach, once the local
\* setState calls stop, a state in which no request is sent any more and both
\* states equal the store's value.
C37_ReachesQuiescence == <>[](wsOverflow \/ WsQuiescent)

\* C38: every transaction id in publishStreams was obtained from the current
\* connection, so useSPub never publishes with an id of an earlier one.
C38_IdsOfCurrentConnection == (rConn # 0 /\ spTid # 0) => spTid = rConn

\* C39: once all outstanding requests have settled, the value of useGetOnce
\* is the result of the get issued for the currently bound key, in whatever
\* order the responses arrived.
C39_ValueOfCurrentKey == goPending = {} => goValue = goLatest

====
